---- MODULE Spec2Model ----
(***************************************************************************)
(* State-machine model of the handwriting recognizer GUI                   *)
(* (src/hira_kata_kanji_kuzu.py, class JapaneseCharacterRecognizer).       *)
(*                                                                         *)
(* The PIL bitmap self.image is a single-channel image whose pixels are    *)
(* either 255 (background) or 0 (ink): every draw call uses fill=0.  It is *)
(* modelled as the set of its ink pixels.  The canvas is scaled down from  *)
(* 320x320 to CanvasSize x CanvasSize and the brush range from 4..12 to    *)
(* MinBrush..MaxBrush.  Class indices, pixel coordinates and tensor        *)
(* indices are 0-based as in the source.  Probabilities are integers in    *)
(* percent, pixel and tensor values integers in 0..255 (1.0 = 255).        *)
(***************************************************************************)
EXTENDS Integers, Sequences, FiniteSets

VARIABLES
    strokes,          \* self.strokes: list of strokes, a stroke is a list of segments
    redo_stack,       \* self.redo_stack
    last_x, last_y,   \* self.last_x, self.last_y (None or a coordinate)
    line_width,       \* self.line_width
    image,            \* self.image: the set of its ink pixels
    current_mode,     \* self.current_mode
    current_labels,   \* self.current_labels: the family whose label table it is
    current_language, \* self.current_language
    auto_var,         \* self.auto_var
    result_label,     \* text of self.result_label
    conf_bar,         \* self.conf_bar["value"]
    top_table,        \* rows of self.top_table
    tensor,           \* value returned by the last _preprocess_for_model call
    predicted,        \* whether the last handler called a classifier's predict
    stages,           \* the steps of recognize the last handler entered, in order
    request,          \* what the recognize of the last handler used: the model,
                      \* the tensor size and the label table, or None
    op,               \* the handler that ran last
    outcome,          \* how it ended: "ok", "return", a dialog or an exception
    open_stroke,      \* position in the log of the stroke begun by the last
                      \* pointer-down while the button is still held, else 0
    pending,          \* Tk's event queue: the recognize commands and pointer-ups
                      \* not yet handled to the end, oldest first
    in_flight,        \* number of calls of recognize that have not returned
    window,           \* self.root: "none" before __init__, then "open" or "destroyed"
    models            \* per family, whether self.<family>_model is "unset",
                      \* "loaded", or its load_model call "failed"

drawVars == <<strokes, redo_stack, last_x, last_y, line_width, image>>
modeVars == <<current_mode, current_labels, current_language, auto_var>>
resultVars == <<result_label, conf_bar, top_table>>
flightVars == <<pending, in_flight>>
startVars == <<window, models>>
vars == <<strokes, redo_stack, last_x, last_y, line_width, image,
          current_mode, current_labels, current_language, auto_var,
          result_label, conf_bar, top_table, tensor, predicted, stages, request, op, outcome,
          open_stroke, pending, in_flight, window, models>>

(***************************************************************************)
(* Bounds                                                                  *)
(***************************************************************************)
CanvasSize == 3
MinBrush == 1
MaxBrush == 2
MaxStrokes == 2
MaxSegs == 2
MaxPending == 2
MaxBox == 6

\* Python's None, and a value that is not None
None == <<>>
Some(v) == <<v>>

Pixels == (0 .. CanvasSize - 1) \X (0 .. CanvasSize - 1)

\* Pointer events (event.x, event.y) are sampled at three corners of the
\* canvas, at two opposite corners, or at the origin alone.
ThreePoints == {<<0, 0>>, <<CanvasSize - 1, 0>>, <<CanvasSize - 1, CanvasSize - 1>>}
TwoPoints == {<<0, 0>>, <<CanvasSize - 1, CanvasSize - 1>>}
OnePoint == {<<0, 0>>}

BrushValues == MinBrush .. MaxBrush

Modes == {"hiragana", "katakana", "kanji", "kuzushiji"}
Languages == {"en", "jp"}

Max(a, b) == IF a >= b THEN a ELSE b
Min(a, b) == IF a <= b THEN a ELSE b

RECURSIVE Reverse(_)
Reverse(s) == IF s = <<>> THEN <<>> ELSE Reverse(Tail(s)) \o <<Head(s)>>

RECURSIVE SumLen(_)
SumLen(s) == IF s = <<>> THEN 0 ELSE Len(Head(s)) + SumLen(Tail(s))

\* stroke.pop() / list.append seen as values
Front(s) == SubSeq(s, 1, Len(s) - 1)
Last(s) == s[Len(s)]

(***************************************************************************)
(* Rasterizer: ImageDraw.line([x1, y1, x2, y2], fill=0, width=w)           *)
(***************************************************************************)
\* The pixels a line of the given width sets to 0: those whose centre is
\* within width/2 of the segment; a zero-length line is a single point.
Ink(seg, width) ==
    LET x1 == seg[1]
        y1 == seg[2]
        x2 == seg[3]
        y2 == seg[4]
        dx == x2 - x1
        dy == y2 - y1
        len2 == dx * dx + dy * dy
    IN  IF len2 = 0
        THEN {<<x1, y1>>} \cap Pixels
        ELSE {p \in Pixels :
                LET u == (p[1] - x1) * dx + (p[2] - y1) * dy
                    c == (p[1] - x1) * dy - (p[2] - y1) * dx
                IN  /\ u >= 0
                    /\ u <= len2
                    /\ 4 * c * c <= width * width * len2}

Blank == {}

draw_line(img, seg, width) == img \cup Ink(seg, width)

RECURSIVE draw_stroke(_, _)
draw_stroke(img, stroke) ==
    IF stroke = <<>> THEN img
    ELSE draw_stroke(draw_line(img, Head(stroke)[1], Head(stroke)[2]), Tail(stroke))

RECURSIVE draw_strokes(_, _)
draw_strokes(img, ss) ==
    IF ss = <<>> THEN img
    ELSE draw_strokes(draw_stroke(img, Head(ss)), Tail(ss))

\* _redraw_from_strokes: a blank bitmap, then every segment of every stroke
\* of self.strokes, in order, with its recorded width.
redraw_from_strokes(ss) == draw_strokes(Blank, ss)


(***************************************************************************)
(* Normalizer: _preprocess_for_model                                       *)
(***************************************************************************)
model_inputs(mode) == IF mode = "kuzushiji" THEN 28 ELSE 48

Background == 255

\* value of pixel <<x, y>> of a bitmap given by its ink set
PixelValue(img, x, y) == IF <<x, y>> \in img THEN 0 ELSE Background

SetMin(S) == CHOOSE a \in S : \A b \in S : a <= b
SetMax(S) == CHOOSE a \in S : \A b \in S : a >= b

\* m = int(0.20 * max(w, h))
PadMargin(w, h) == (20 * Max(w, h)) \div 100

\* ImageOps.invert
Invert(v) == 255 - v

\* np.clip(x * 1.2, 0, 1), on values in units of 1/255
ContrastBoost(v) == Min(255, (v * 12) \div 10)

\* a square into which the padded canvas is pasted at the top left corner
SquareGeometry_corner(img) ==
    LET x1 == SetMin({p[1] : p \in img})
        x2 == SetMax({p[1] : p \in img})
        y1 == SetMin({p[2] : p \in img})
        y2 == SetMax({p[2] : p \in img})
        w  == x2 - x1 + 1
        h  == y2 - y1 + 1
        m  == (20 * Max(w, h)) \div 100
        side == Max(w + 2 * m, h + 2 * m)
    IN  [x1 |-> x1, y1 |-> y1, w |-> w, h |-> h, m |-> m, side |-> side,
         left |-> m, top |-> m]

\* The square bitmap built before resizing: the crop to the ink bounding box
\* pasted at (m, m) into a (w + 2m) x (h + 2m) canvas, which is pasted at
\* ((side - cw) // 2, (side - ch) // 2) into a side x side square.
SquareGeometry(img) ==
    LET x1 == SetMin({p[1] : p \in img})
        x2 == SetMax({p[1] : p \in img})
        y1 == SetMin({p[2] : p \in img})
        y2 == SetMax({p[2] : p \in img})
        w  == x2 - x1 + 1
        h  == y2 - y1 + 1
        m  == PadMargin(w, h)
        cw == w + 2 * m
        ch == h + 2 * m
        side == Max(cw, ch)
    IN  [x1 |-> x1, y1 |-> y1, w |-> w, h |-> h, m |-> m, side |-> side,
         left |-> (side - cw) \div 2 + m, top |-> (side - ch) \div 2 + m]

SquareValue(img, g, sx, sy) ==
    LET cx == sx - g.left
        cy == sy - g.top
    IN  IF cx >= 0 /\ cx < g.w /\ cy >= 0 /\ cy < g.h
        THEN PixelValue(img, g.x1 + cx, g.y1 + cy)
        ELSE Background

\* square.resize((model_input, model_input), Image.LANCZOS): the resampling
\* filter is the imaging library's; each output pixel takes the value of the
\* source pixel its position maps to.
ResizeValue(img, g, size, row, col) ==
    SquareValue(img, g, (col * g.side) \div size, (row * g.side) \div size)

preprocess_for_model(img, mode) ==
    LET model_input == model_inputs(mode)
        idx == (0 .. model_input - 1) \X (0 .. model_input - 1)
    IN  IF img = Blank
        THEN [shape |-> <<1, model_input, model_input, 1>>,
              data  |-> [rc \in idx |-> Background]]
        ELSE LET g == SquareGeometry(img)
             IN  [shape |-> <<1, model_input, model_input, 1>>,
                  data  |-> [rc \in idx |->
                      ContrastBoost(Invert(ResizeValue(img, g, model_input, rc[1], rc[2])))]]

(***************************************************************************)
(* Classifier boundary and result ranking                                  *)
(***************************************************************************)
TopK == 5

\* A probability vector as numpy sees it: indexed from 0.
Vec(s) == [i \in 0 .. Len(s) - 1 |-> s[i + 1]]


\* What model.predict can do: raise, or return predictions whose row 0 is a
\* probability vector.  The last two vectors come from a classifier with one
\* class more than the label tables have entries.
ProbVecs == {Vec(<<60, 30, 10>>), Vec(<<40, 40, 20>>), Vec(<<20, 40, 40>>),
             Vec(<<40, 30, 20, 10>>), Vec(<<10, 20, 30, 40>>)}
Raise == [raised |-> TRUE, probs |-> Vec(<<>>)]
Returns(probs) == [raised |-> FALSE, probs |-> probs]
Outcomes == {Returns(v) : v \in ProbVecs} \cup {Raise}

\* np.argmax: the first index holding the maximum
argmax(probs) ==
    CHOOSE i \in DOMAIN probs :
        /\ \A j \in DOMAIN probs : probs[j] <= probs[i]
        /\ \A j \in DOMAIN probs : probs[j] = probs[i] => i <= j

\* np.argsort: position (from 0) of index i in ascending order of value,
\* equal values kept in index order
SortPos(probs, i) ==
    Cardinality({j \in DOMAIN probs :
                    probs[j] < probs[i] \/ (probs[j] = probs[i] /\ j < i)})

argsort(probs) ==
    [k \in 0 .. Cardinality(DOMAIN probs) - 1 |->
        CHOOSE i \in DOMAIN probs : SortPos(probs, i) = k]

\* np.argsort(probs)[::-1][:5], as a sequence
top_indices(probs) ==
    LET n == Cardinality(DOMAIN probs)
        a == argsort(probs)
    IN  [k \in 1 .. Min(TopK, n) |-> a[n - k]]

\* The label tables come from the modules hiraganajapanese, katakanajapanese,
\* kanjijapanese and kuzujapanese; the lookup self.current_labels[i] raises
\* for an index the table does not have.
NumLabels == 3
HasLabel(labels, i) == 0 <= i /\ i < NumLabels

\* self.current_labels[i], resolved for the display language
LabelText(labels, i, language) == <<labels, i, language>>

DefaultText(language) == <<"default", language>>


(***************************************************************************)
(* Initial state: JapaneseCharacterRecognizer.__init__ with all four       *)
(* models loaded                                                           *)
(***************************************************************************)
Init ==
    /\ strokes = <<>>
    /\ redo_stack = <<>>
    /\ last_x = None
    /\ last_y = None
    /\ line_width = MaxBrush
    /\ image = Blank
    /\ current_mode = "hiragana"
    /\ current_labels = "hiragana"
    /\ current_language = "en"
    /\ auto_var = TRUE
    /\ result_label = DefaultText("en")
    /\ conf_bar = 0
    /\ top_table = <<>>
    /\ tensor = None
    /\ predicted = FALSE
    /\ stages = <<>>
    /\ request = None
    /\ op = "init"
    /\ outcome = "ok"
    /\ open_stroke = 0
    /\ pending = <<>>
    /\ in_flight = 0
    /\ window = "open"
    /\ models = [m \in Modes |-> "loaded"]

(***************************************************************************)
(* Handlers                                                                *)
(***************************************************************************)
\* a _reset_results that leaves the rows of the table
reset_results_table_kept(language) ==
    /\ result_label' = DefaultText(language)
    /\ conf_bar' = 0
    /\ UNCHANGED top_table

\* _reset_results, self.current_language being language
reset_results(language) ==
    /\ result_label' = DefaultText(language)
    /\ conf_bar' = 0
    /\ top_table' = <<>>

\* The rows recognize would insert into the table for a probability vector
TableRows(probs, labels, language) ==
    LET t == top_indices(probs)
    IN  [k \in DOMAIN t |-> <<LabelText(labels, t[k], language), probs[t[k]]>>]

\* The rows the loop of recognize has inserted when it ends: all of them, or
\* those before the first index whose label lookup raises
InsertedRows(probs, labels, language) ==
    LET t == top_indices(probs)
        bad == {k \in DOMAIN t : ~HasLabel(labels, t[k])}
        n == IF bad = {} THEN Len(t) ELSE SetMin(bad) - 1
    IN  SubSeq(TableRows(probs, labels, language), 1, n)

\* The steps of recognize after the empty-canvas guard
AllStages == <<"normalize", "classify", "rank", "display", "rank", "display">>

\* The model recognize calls predict on: the if/elif chain on current_mode
predict_model(mode) ==
    IF mode = "hiragana" THEN "hiragana"
    ELSE IF mode = "katakana" THEN "katakana"
    ELSE IF mode = "kanji" THEN "kanji"
    ELSE "kuzushiji"

\* a recognize without the try/except: what predict raises leaves the handler
classify_and_display_uncaught(o) ==
    /\ predicted' = TRUE
    /\ request' = Some([model |-> predict_model(current_mode),
                        model_input |-> model_inputs(current_mode),
                        labels |-> current_labels])
    /\ IF o.raised
       THEN /\ stages' = SubSeq(AllStages, 1, 2)
            /\ outcome' = "Exception"
            /\ UNCHANGED resultVars
       ELSE /\ stages' = AllStages
            /\ result_label' = LabelText(current_labels, argmax(o.probs), current_language)
            /\ conf_bar' = o.probs[argmax(o.probs)]
            /\ top_table' = InsertedRows(o.probs, current_labels, current_language)
            /\ outcome' = "ok"

\* recognize from "x = self._preprocess_for_model()" on, for a given behaviour
\* o of the classifier
classify_and_display(o) ==
    /\ predicted' = TRUE
    /\ request' = Some([model |-> predict_model(current_mode),
                        model_input |-> model_inputs(current_mode),
                        labels |-> current_labels])
    /\ IF o.raised
       THEN \* predict raised: messagebox.showerror
            /\ stages' = SubSeq(AllStages, 1, 2)
            /\ outcome' = "error"
            /\ UNCHANGED resultVars
       ELSE IF ~HasLabel(current_labels, argmax(o.probs))
       THEN \* self.current_labels[predicted_index] raised
            /\ stages' = SubSeq(AllStages, 1, 3)
            /\ outcome' = "error"
            /\ UNCHANGED resultVars
       ELSE /\ stages' = AllStages
            /\ result_label' = LabelText(current_labels, argmax(o.probs), current_language)
            /\ conf_bar' = o.probs[argmax(o.probs)]
            /\ top_table' = InsertedRows(o.probs, current_labels, current_language)
            /\ outcome' = IF Len(top_table') = Len(top_indices(o.probs))
                          THEN "ok" ELSE "error"

\* a recognize without the "if not mask.any()" guard
recognize_unguarded(o) == classify_and_display(o)

\* recognize, for a given behaviour o of the classifier
recognize(o) ==
    IF image = Blank
    THEN \* messagebox.showwarning, return
         /\ predicted' = FALSE
         /\ stages' = <<>>
         /\ request' = None
         /\ outcome' = "warning"
         /\ UNCHANGED resultVars
    ELSE classify_and_display(o)

\* a _start_stroke that leaves the redo stack alone
start_stroke_redo_kept(r) == r

\* self.redo_stack.clear() in _start_stroke
start_stroke_redo(r) == <<>>

\* _start_stroke
StartStroke(p) ==
    /\ Len(strokes) < MaxStrokes
    /\ last_x' = Some(p[1])
    /\ last_y' = Some(p[2])
    /\ strokes' = Append(strokes, <<>>)
    /\ redo_stack' = start_stroke_redo(redo_stack)
    /\ open_stroke' = Len(strokes) + 1
    /\ op' = "start_stroke"
    /\ UNCHANGED <<flightVars, startVars>>
    /\ predicted' = FALSE
    /\ stages' = <<>>
    /\ request' = None
    /\ outcome' = "ok"
    /\ UNCHANGED <<line_width, image, modeVars, resultVars, tensor>>

\* a _paint that records the segment without its width
paint_append_default_width(ss, seg, width) ==
    [ss EXCEPT ![Len(ss)] = Append(@, <<seg, MinBrush>>)]

\* self.strokes[-1].append((seg, width))
paint_append(ss, seg, width) ==
    [ss EXCEPT ![Len(ss)] = Append(@, <<seg, width>>)]

\* _paint
Paint(p) ==
    /\ op' = "paint"
    /\ UNCHANGED <<flightVars, startVars>>
    /\ predicted' = FALSE
    /\ stages' = <<>>
    /\ request' = None
    /\ IF last_x = None \/ last_y = None
       THEN /\ last_x' = Some(p[1])
            /\ last_y' = Some(p[2])
            /\ outcome' = "return"
            /\ UNCHANGED <<strokes, image>>
       ELSE LET seg == <<last_x[1], last_y[1], p[1], p[2]>>
            IN  /\ image' = draw_line(image, seg, line_width)
                /\ IF strokes = <<>>
                   THEN \* self.strokes[-1] raises IndexError after the draw
                        /\ outcome' = "IndexError"
                        /\ UNCHANGED <<strokes, last_x, last_y>>
                   ELSE /\ SumLen(strokes) + SumLen(redo_stack) < MaxSegs
                        /\ strokes' = paint_append(strokes, seg, line_width)
                        /\ last_x' = Some(p[1])
                        /\ last_y' = Some(p[2])
                        /\ outcome' = "ok"
    /\ UNCHANGED <<redo_stack, line_width, modeVars, resultVars, tensor, open_stroke>>

\* _end_stroke
end_stroke(o) ==
    /\ last_x' = None
    /\ last_y' = None
    /\ open_stroke' = 0
    /\ op' = "end_stroke"
    /\ IF auto_var
       THEN recognize(o)
       ELSE /\ outcome' = "ok"
            /\ predicted' = FALSE
            /\ stages' = <<>>
            /\ request' = None
            /\ UNCHANGED resultVars
    /\ UNCHANGED <<strokes, redo_stack, line_width, image, modeVars, tensor>>

\* _end_stroke, called by the main loop and run to its end
EndStroke(o) == end_stroke(o) /\ UNCHANGED <<flightVars, startVars>>

\* _update_brush
UpdateBrush(w) ==
    /\ line_width' = w
    /\ op' = "update_brush"
    /\ UNCHANGED <<flightVars, startVars>>
    /\ predicted' = FALSE
    /\ stages' = <<>>
    /\ request' = None
    /\ outcome' = "ok"
    /\ UNCHANGED <<strokes, redo_stack, last_x, last_y, image, modeVars,
                   resultVars, tensor, open_stroke>>

\* an undo that inserts the stroke at the bottom of the redo stack
undo_redo_bottom(ss, r) == <<Last(ss)>> \o r

\* stroke = self.strokes.pop(); self.redo_stack.append(stroke)
undo_strokes(ss) == Front(ss)
undo_redo(ss, r) == Append(r, Last(ss))

\* an undo without the "if not self.strokes: return" guard: pop raises
Undo_unguarded ==
    /\ op' = "undo"
    /\ UNCHANGED <<flightVars, startVars>>
    /\ predicted' = FALSE
    /\ stages' = <<>>
    /\ request' = None
    /\ IF strokes = <<>>
       THEN /\ outcome' = "IndexError"
            /\ UNCHANGED <<strokes, redo_stack, image, resultVars>>
       ELSE /\ strokes' = Front(strokes)
            /\ redo_stack' = Append(redo_stack, Last(strokes))
            /\ image' = redraw_from_strokes(strokes')
            /\ reset_results(current_language)
            /\ outcome' = "ok"
    /\ UNCHANGED <<last_x, last_y, line_width, modeVars, tensor, open_stroke>>

\* undo
Undo ==
    /\ op' = "undo"
    /\ UNCHANGED <<flightVars, startVars>>
    /\ predicted' = FALSE
    /\ stages' = <<>>
    /\ request' = None
    /\ IF strokes = <<>>
       THEN /\ outcome' = "return"
            /\ UNCHANGED <<strokes, redo_stack, image, resultVars>>
       ELSE /\ strokes' = undo_strokes(strokes)
            /\ redo_stack' = undo_redo(strokes, redo_stack)
            /\ image' = redraw_from_strokes(strokes')
            /\ reset_results(current_language)
            /\ outcome' = "ok"
    /\ UNCHANGED <<last_x, last_y, line_width, modeVars, tensor, open_stroke>>

\* a redo that puts the stroke back in front of the committed strokes
redo_strokes_front(ss, r) == <<Last(r)>> \o ss

\* stroke = self.redo_stack.pop(); self.strokes.append(stroke)
redo_strokes(ss, r) == Append(ss, Last(r))
redo_redo(r) == Front(r)

\* redo
Redo ==
    /\ op' = "redo"
    /\ UNCHANGED <<flightVars, startVars>>
    /\ predicted' = FALSE
    /\ stages' = <<>>
    /\ request' = None
    /\ IF redo_stack = <<>>
       THEN /\ outcome' = "return"
            /\ UNCHANGED <<strokes, redo_stack, image, resultVars>>
       ELSE /\ strokes' = redo_strokes(strokes, redo_stack)
            /\ redo_stack' = redo_redo(redo_stack)
            /\ image' = redraw_from_strokes(strokes')
            /\ reset_results(current_language)
            /\ outcome' = "ok"
    /\ UNCHANGED <<last_x, last_y, line_width, modeVars, tensor, open_stroke>>

\* a clear that keeps the redo stack
ClearCanvas_redo_kept ==
    /\ op' = "clear_canvas"
    /\ UNCHANGED <<flightVars, startVars>>
    /\ predicted' = FALSE
    /\ stages' = <<>>
    /\ request' = None
    /\ image' = Blank
    /\ strokes' = <<>>
    /\ reset_results(current_language)
    /\ outcome' = "ok"
    /\ UNCHANGED <<redo_stack, last_x, last_y, line_width, modeVars, tensor, open_stroke>>

\* clear_canvas
ClearCanvas ==
    /\ op' = "clear_canvas"
    /\ UNCHANGED <<flightVars, startVars>>
    /\ predicted' = FALSE
    /\ stages' = <<>>
    /\ request' = None
    /\ image' = Blank
    /\ strokes' = <<>>
    /\ redo_stack' = <<>>
    /\ reset_results(current_language)
    /\ outcome' = "ok"
    /\ UNCHANGED <<last_x, last_y, line_width, modeVars, tensor, open_stroke>>

\* a change_mode that keeps the label table it finds
mode_labels_kept(m) == current_labels

\* the label table change_mode selects: the if/elif chain on current_mode
mode_labels(m) ==
    IF m = "hiragana" THEN "hiragana"
    ELSE IF m = "katakana" THEN "katakana"
    ELSE IF m = "kanji" THEN "kanji"
    ELSE "kuzushiji"

\* change_mode, the radio button having set mode_var to m
ChangeMode(m) ==
    /\ op' = "change_mode"
    /\ UNCHANGED <<flightVars, startVars>>
    /\ predicted' = FALSE
    /\ stages' = <<>>
    /\ request' = None
    /\ current_mode' = m
    /\ current_labels' = mode_labels(m)
    /\ UNCHANGED <<current_language, auto_var>>
    /\ reset_results(current_language)
    /\ outcome' = "ok"
    /\ UNCHANGED <<drawVars, tensor, open_stroke>>

\* change_language, the combobox having selected l
ChangeLanguage(l) ==
    /\ op' = "change_language"
    /\ UNCHANGED <<flightVars, startVars>>
    /\ predicted' = FALSE
    /\ stages' = <<>>
    /\ request' = None
    /\ current_language' = l
    /\ UNCHANGED <<current_mode, current_labels, auto_var>>
    /\ reset_results(l)
    /\ outcome' = "ok"
    /\ UNCHANGED <<drawVars, tensor, open_stroke>>

\* the "Auto-recognize on stroke end" checkbutton toggles auto_var
AutoCheck ==
    /\ op' = "auto_check"
    /\ UNCHANGED <<flightVars, startVars>>
    /\ predicted' = FALSE
    /\ stages' = <<>>
    /\ request' = None
    /\ auto_var' = ~auto_var
    /\ outcome' = "ok"
    /\ UNCHANGED <<current_mode, current_labels, current_language>>
    /\ UNCHANGED <<drawVars, resultVars, tensor, open_stroke>>

\* a recognize command that wipes the canvas once it has run
Recognize_clearing(o) ==
    /\ op' = "recognize"
    /\ recognize(o)
    /\ strokes' = <<>>
    /\ redo_stack' = <<>>
    /\ image' = Blank
    /\ UNCHANGED <<last_x, last_y, line_width, modeVars, tensor, open_stroke>>
    /\ UNCHANGED <<flightVars, startVars>>

\* recognize, from the button or the <r> key binding
recognize_command(o) ==
    /\ op' = "recognize"
    /\ recognize(o)
    /\ UNCHANGED <<drawVars, modeVars, tensor, open_stroke>>

\* the same, called by the main loop and run to its end
Recognize(o) == recognize_command(o) /\ UNCHANGED <<flightVars, startVars>>

\* Tk delivers <Button-1>, <B1-Motion> and <ButtonRelease-1> to the canvas in
\* that order: motion and release events follow a press on the canvas.
ButtonHeld == open_stroke # 0
Press(p) == ~ButtonHeld /\ StartStroke(p)
Motion(p) == ButtonHeld /\ Paint(p)
Release(o) == ButtonHeld /\ EndStroke(o)

\* The whole program: every handler, pointer events under Tk's protocol at
\* one sample position, every family, language and classifier behaviour.
Next ==
    \/ \E p \in OnePoint : Press(p)
    \/ \E p \in OnePoint : Motion(p)
    \/ \E o \in Outcomes : Release(o)
    \/ UpdateBrush(MaxBrush)
    \/ Undo
    \/ Redo
    \/ ClearCanvas
    \/ \E m \in Modes : ChangeMode(m)
    \/ \E l \in Languages : ChangeLanguage(l)
    \/ AutoCheck
    \/ \E o \in Outcomes : Recognize(o)

Spec == Init /\ [][Next]_vars

\* The drawing handlers under Tk's pointer protocol, with key and button
\* commands between any two pointer events; the classifier is one that
\* raises, two of the families are selected, the brush keeps its width.
DrawModes == {"hiragana", "kuzushiji"}

NextDraw ==
    \/ \E p \in TwoPoints : Press(p)
    \/ \E p \in TwoPoints : Motion(p)
    \/ Release(Raise)
    \/ UpdateBrush(MaxBrush)
    \/ Undo
    \/ Redo
    \/ ClearCanvas
    \/ \E m \in DrawModes : ChangeMode(m)
    \/ Recognize(Raise)

SpecDraw == Init /\ [][NextDraw]_vars

\* Strokes built by pointer-down, pointer-move and pointer-up alone, at three
\* corners and with every brush width.
NextPaint ==
    \/ \E p \in ThreePoints : Press(p)
    \/ \E p \in ThreePoints : Motion(p)
    \/ Release(Raise)
    \/ \E w \in BrushValues : UpdateBrush(w)

SpecPaint == Init /\ [][NextPaint]_vars

\* The pointer handlers called in any order, as when a motion event reaches
\* the canvas with no press before it.
NextPointer ==
    \/ \E p \in TwoPoints : StartStroke(p)
    \/ \E p \in TwoPoints : Paint(p)
    \/ EndStroke(Raise)
    \/ \E w \in BrushValues : UpdateBrush(w)

SpecPointer == Init /\ [][NextPointer]_vars

\* Requests over time.  The user can press r, click Recognize or release the
\* pointer while a handler is still running; Tk keeps such events in its
\* queue.  root.mainloop() takes the oldest event and calls its handler on
\* the one thread of the program, and takes the next event when the handler
\* has returned: recognize is called directly by the key binding, by the
\* button command and by _end_stroke, not through a thread or after().
appVars == <<drawVars, modeVars, resultVars, tensor, predicted, stages, request, op,
             outcome, open_stroke, startVars>>

\* the r key or the Recognize button
PostRecognize ==
    /\ Len(pending) < MaxPending
    /\ pending' = Append(pending, "recognize")
    /\ UNCHANGED <<appVars, in_flight>>

\* the pointer button is released over the canvas
PostRelease ==
    /\ ButtonHeld
    /\ \A k \in 1 .. Len(pending) : pending[k] # "release"
    /\ Len(pending) < MaxPending
    /\ pending' = Append(pending, "release")
    /\ UNCHANGED <<appVars, in_flight>>

\* a dispatcher that starts the handler of every queued event at once, each
\* on a thread of its own
Dispatch_threaded ==
    /\ in_flight < Len(pending)
    /\ in_flight' = in_flight + 1
    /\ UNCHANGED <<appVars, pending>>

\* root.mainloop() calls the handler of the oldest event; it is not in a
\* handler when it does
Dispatch ==
    /\ in_flight = 0
    /\ pending # <<>>
    /\ in_flight' = in_flight + 1
    /\ UNCHANGED <<appVars, pending>>

\* the handler called last runs to its end and returns to the main loop
Return(o) ==
    /\ in_flight > 0
    /\ IF Head(pending) = "recognize" THEN recognize_command(o) ELSE end_stroke(o)
    /\ pending' = Tail(pending)
    /\ in_flight' = in_flight - 1
    /\ UNCHANGED startVars

\* the user draws while no event waits
Idle == pending = <<>> /\ in_flight = 0

NextFlight ==
    \/ \E p \in OnePoint : Idle /\ Press(p)
    \/ \E p \in OnePoint : Idle /\ Motion(p)
    \/ PostRecognize
    \/ PostRelease
    \/ Dispatch
    \/ \E o \in Outcomes : Return(o)

SpecFlight == Init /\ [][NextFlight]_vars

\* The single-family and two-family recognizers, hiragana_gui.py and
\* katakana_gui.py.  Their canvas has no <Button-1> binding: a drag is the
\* pointer-moves up to a pointer-up.  They keep last_x, last_y, the brush
\* width and the bitmap; they have no stroke lists.
SimplePoints == {<<0, 0>>, <<0, 1>>, <<1, 0>>, <<1, 1>>,
                 <<CanvasSize - 1, 1>>, <<CanvasSize - 1, CanvasSize - 1>>}

\* Python's truth value of self.last_x: None and 0 are false
Truthy(v) == v # None /\ v[1] # 0

\* paint
hiragana_gui_paint(p) ==
    /\ op' = "hiragana_gui.paint"
    /\ IF Truthy(last_x) /\ Truthy(last_y)
       THEN image' = draw_line(image, <<last_x[1], last_y[1], p[1], p[2]>>, line_width)
       ELSE UNCHANGED image
    /\ last_x' = Some(p[1])
    /\ last_y' = Some(p[2])
    /\ outcome' = "ok"
    /\ UNCHANGED <<strokes, redo_stack, line_width, modeVars, resultVars, tensor,
                   predicted, stages, request, open_stroke, flightVars, startVars>>

\* reset
hiragana_gui_reset ==
    /\ op' = "hiragana_gui.reset"
    /\ last_x' = None
    /\ last_y' = None
    /\ outcome' = "ok"
    /\ UNCHANGED <<strokes, redo_stack, line_width, image, modeVars, resultVars,
                   tensor, predicted, stages, request, open_stroke, flightVars,
                   startVars>>

\* clear (clear_canvas in katakana_gui.py)
hiragana_gui_clear ==
    /\ op' = "hiragana_gui.clear"
    /\ image' = Blank
    /\ reset_results(current_language)
    /\ outcome' = "ok"
    /\ UNCHANGED <<strokes, redo_stack, last_x, last_y, line_width, modeVars,
                   tensor, predicted, stages, request, open_stroke, flightVars,
                   startVars>>

NextSimple ==
    \/ \E p \in SimplePoints : hiragana_gui_paint(p)
    \/ hiragana_gui_reset
    \/ hiragana_gui_clear

SpecSimple == Init /\ [][NextSimple]_vars


\* Startup.  __init__ loads the four classifiers in this order inside one
\* try; the first load_model call that raises ends the block.
FamilyOrder == <<"hiragana", "katakana", "kanji", "kuzushiji">>

\* position in FamilyOrder of the first family of failing whose load raises,
\* or one past the end
FirstFailure(failing) ==
    SetMin({k \in 1 .. Len(FamilyOrder) : FamilyOrder[k] \in failing}
           \cup {Len(FamilyOrder) + 1})

\* the state before JapaneseCharacterRecognizer(root) is called
InitStartup ==
    /\ strokes = <<>>
    /\ redo_stack = <<>>
    /\ last_x = None
    /\ last_y = None
    /\ line_width = MaxBrush
    /\ image = Blank
    /\ current_mode = "hiragana"
    /\ current_labels = "hiragana"
    /\ current_language = "en"
    /\ auto_var = TRUE
    /\ result_label = DefaultText("en")
    /\ conf_bar = 0
    /\ top_table = <<>>
    /\ tensor = None
    /\ predicted = FALSE
    /\ stages = <<>>
    /\ request = None
    /\ op = "main"
    /\ outcome = "ok"
    /\ open_stroke = 0
    /\ pending = <<>>
    /\ in_flight = 0
    /\ window = "none"
    /\ models = [m \in Modes |-> "unset"]

\* __init__, load_model raising for the families in failing
Startup(failing) ==
    /\ window = "none"
    /\ op' = "init"
    /\ models' = [m \in Modes |->
          IF \E k \in 1 .. Len(FamilyOrder) :
                 FamilyOrder[k] = m /\ k < FirstFailure(failing) THEN "loaded"
          ELSE IF FamilyOrder[FirstFailure(failing)] = m THEN "failed"
          ELSE "unset"]
    /\ IF failing = {}
       THEN /\ window' = "open"
            /\ outcome' = "ok"
       ELSE \* messagebox.showerror, self.root.destroy(), return
            /\ window' = "destroyed"
            /\ outcome' = "error"
    /\ UNCHANGED <<drawVars, modeVars, resultVars, tensor, predicted, stages, request,
                   open_stroke, flightVars>>

\* handlers run while the window exists
Running == window = "open"

NextStartup ==
    \/ \E failing \in SUBSET Modes : Startup(failing)
    \/ \E p \in OnePoint : Running /\ Press(p)
    \/ \E p \in OnePoint : Running /\ Motion(p)
    \/ \E o \in Outcomes : Running /\ Release(o)
    \/ \E m \in Modes : Running /\ ChangeMode(m)
    \/ \E o \in Outcomes : Running /\ Recognize(o)

SpecStartup == InitStartup /\ [][NextStartup]_vars


\* The Normalizer as a function of the bitmap and the mode: bitmaps that are
\* blank, a filled rectangle or one line.
Rect(x1, y1, x2, y2) == {p \in Pixels : x1 <= p[1] /\ p[1] <= x2 /\ y1 <= p[2] /\ p[2] <= y2}

\* Ink with a bounding box of w x h pixels whose top left corner is at
\* (d, d): the filled box, and its two corner pixels alone.  These boxes are
\* large enough for a padding margin of one pixel and more.
Box(d, w, h) == {<<d + x, d + y>> : x \in 0 .. w - 1, y \in 0 .. h - 1}
Corners(d, w, h) == {<<d, d>>, <<d + w - 1, d + h - 1>>}

BoxImages ==
    {Box(d, w, h) : d \in 0 .. 1, w \in 1 .. MaxBox, h \in 1 .. MaxBox}
    \cup {Corners(d, w, h) : d \in 0 .. 1, w \in 1 .. MaxBox, h \in 1 .. MaxBox}

NormImages ==
    {Blank}
    \cup {Rect(a[1], a[2], b[1], b[2]) : a \in Pixels, b \in Pixels}
    \cup {Ink(<<a[1], a[2], b[1], b[2]>>, w) : a \in Pixels, b \in Pixels, w \in BrushValues}
    \cup BoxImages

InitNorm ==
    /\ image \in NormImages
    /\ strokes = <<>>
    /\ redo_stack = <<>>
    /\ last_x = None
    /\ last_y = None
    /\ line_width = MaxBrush
    /\ current_mode = "hiragana"
    /\ current_labels = "hiragana"
    /\ current_language = "en"
    /\ auto_var = TRUE
    /\ result_label = DefaultText("en")
    /\ conf_bar = 0
    /\ top_table = <<>>
    /\ tensor = None
    /\ predicted = FALSE
    /\ stages = <<>>
    /\ request = None
    /\ op = "init"
    /\ outcome = "ok"
    /\ open_stroke = 0
    /\ pending = <<>>
    /\ in_flight = 0
    /\ window = "open"
    /\ models = [m \in Modes |-> "loaded"]

\* a call of _preprocess_for_model
Preprocess ==
    /\ op' = "preprocess_for_model"
    /\ UNCHANGED <<flightVars, startVars>>
    /\ tensor' = preprocess_for_model(image, current_mode)
    /\ predicted' = FALSE
    /\ stages' = <<>>
    /\ request' = None
    /\ outcome' = "ok"
    /\ UNCHANGED <<drawVars, modeVars, resultVars, open_stroke>>

NextNorm ==
    \/ Preprocess
    \/ \E m \in Modes : ChangeMode(m)

SpecNorm == InitNorm /\ [][NextNorm]_vars


(***************************************************************************)
(* Properties                                                              *)
(***************************************************************************)
\* The stroke log: the committed strokes, then the undone ones, oldest first
Log(ss, r) == ss \o Reverse(r)

\* C1: in every reachable state the canvas image is the replay, onto a blank
\* bitmap, of every segment of every committed stroke with its recorded width.
C1_ImageIsReplayOfCommitted == image = redraw_from_strokes(strokes)

\* C2: a pointer-down empties the redo buffer; the buffer then stays empty
\* until the next undo, and a redo on the empty buffer returns at once and
\* changes neither the committed strokes, the redo buffer nor the image.
C2_RedoInvalidation ==
    [][/\ op' = "start_stroke" => redo_stack' = <<>>
       /\ (redo_stack = <<>> /\ op' # "undo") => redo_stack' = <<>>
       /\ (redo_stack = <<>> /\ op' = "redo") =>
              /\ outcome' = "return"
              /\ UNCHANGED <<strokes, redo_stack, image>>]_vars

\* a redo that did nothing, issued while the stroke of the last pointer-down
\* is the last committed one
C2_Witness ==
    /\ op = "redo"
    /\ outcome = "return"
    /\ strokes # <<>>
    /\ open_stroke = Len(strokes)
    /\ redo_stack = <<>>

\* C3: an undo on a non-empty committed sequence moves its last stroke onto
\* the redo buffer, and the redo that follows immediately gives back exactly
\* the committed sequence and the redo buffer of before the undo; with one
\* committed stroke and an empty buffer the undo leaves [] and [stroke1].
C3_UndoRedoInverse ==
    [][(op' = "undo" /\ strokes # <<>>) =>
          /\ redo_stack' # <<>>
          /\ redo_strokes(strokes', redo_stack') = strokes
          /\ redo_redo(redo_stack') = redo_stack
          /\ (Len(strokes) = 1 /\ redo_stack = <<>>) =>
                 (strokes' = <<>> /\ redo_stack' = <<strokes[1]>>)]_vars

\* the end of begin, extend(seg1), end, undo, redo
C3_Witness ==
    /\ op = "redo"
    /\ outcome = "ok"
    /\ redo_stack = <<>>
    /\ Len(strokes) = 1
    /\ Len(strokes[1]) = 1

C5_UndoRedoKeepLog ==
    [][op' \in {"undo", "redo"} =>
          Log(strokes', redo_stack') = Log(strokes, redo_stack)]_vars

\* two different strokes have been undone, then one redone
C5_Witness ==
    /\ op = "redo"
    /\ outcome = "ok"
    /\ Len(strokes) = 1
    /\ Len(redo_stack) = 1
    /\ strokes[1] # redo_stack[1]

\* C6: undo with no committed stroke, and redo with an empty redo buffer,
\* return without an error and change neither sequence nor the image.
C6_EmptyUndoRedoNoOp ==
    [][/\ (op' = "undo" /\ strokes = <<>>) =>
              /\ outcome' = "return"
              /\ UNCHANGED <<strokes, redo_stack, image>>
       /\ (op' = "redo" /\ redo_stack = <<>>) =>
              /\ outcome' = "return"
              /\ UNCHANGED <<strokes, redo_stack, image>>]_vars

\* an undo that found nothing to undo, an undone stroke being in the buffer
C6_Witness ==
    /\ op = "undo"
    /\ outcome = "return"
    /\ strokes = <<>>
    /\ redo_stack # <<>>

\* C7: a pointer-move that arrives when no stroke is open, before any
\* pointer-down or after a pointer-up, adds no segment to any committed
\* stroke and draws no ink.
C7_MoveWithoutStrokeHasNoEffect ==
    [][(op' = "paint" /\ open_stroke = 0) =>
          (strokes' = strokes /\ image' = image)]_vars

\* C8: no step changes the segments of a stroke other than the one opened by
\* the last pointer-down and not yet closed by a pointer-up; strokes leave
\* the log only by clear or by a pointer-down dropping the redo buffer.
C8_ClosedStrokesImmutable ==
    [][op' # "clear_canvas" =>
          \A i \in 1 .. Len(Log(strokes, redo_stack)) :
              (i # open_stroke /\ (op' = "start_stroke" => i <= Len(strokes))) =>
                  /\ i <= Len(Log(strokes', redo_stack'))
                  /\ Log(strokes', redo_stack')[i] = Log(strokes, redo_stack)[i]]_vars

\* The value a background pixel has in the tensor of a canvas with ink
TensorBackground == ContrastBoost(Invert(Background))

\* C9: the tensor of an all-background canvas has shape
\* (1, model_input, model_input, 1) and holds the background value of the
\* tensor's polarity everywhere.
C9_BlankCanvasGivesBackgroundTensor ==
    (op = "preprocess_for_model" /\ image = Blank) =>
        /\ tensor.shape = <<1, model_inputs(current_mode), model_inputs(current_mode), 1>>
        /\ \A rc \in DOMAIN tensor.data : tensor.data[rc] = TensorBackground

\* C10: a recognize on a canvas without ink, from the button, the key or a
\* pointer-up with auto-recognize on, calls no classifier, shows the warning
\* and changes neither the strokes, the redo buffer, the image nor the
\* displayed result.
C10_RecognizeOnBlankCanvas ==
    [][((op' = "recognize" \/ (op' = "end_stroke" /\ auto_var)) /\ image = Blank) =>
          /\ predicted' = FALSE
          /\ stages' = <<>>
          /\ request' = None
          /\ outcome' = "warning"
          /\ UNCHANGED <<strokes, redo_stack, image, resultVars>>]_vars

\* a pointer-up with auto-recognize on, after a pointer-down and no ink
C10_Witness ==
    /\ op = "end_stroke"
    /\ outcome = "warning"
    /\ predicted = FALSE
    /\ stages = <<>>
    /\ request = None
    /\ image = Blank
    /\ strokes # <<>>

\* A handler that runs recognize: the command, or a pointer-up with
\* auto-recognize on
IsRequest == op' = "recognize" \/ (op' = "end_stroke" /\ auto_var)

\* C11: a recognize request, whether it displays a result or fails with an
\* inference error, leaves the committed strokes, the redo buffer and the
\* canvas image exactly as they were before it.
C11_RecognizeKeepsDrawing ==
    [][IsRequest => UNCHANGED <<strokes, redo_stack, image>>]_vars

\* a recognize command whose classifier raised, with ink on the canvas and an
\* undone stroke in the redo buffer
C11_Witness ==
    /\ op = "recognize"
    /\ predicted
    /\ outcome = "error"
    /\ image # Blank
    /\ strokes # <<>>
    /\ redo_stack # <<>>

\* C12: a recognize request that fails at any step, the classifier call or a
\* label lookup, ends with the error reported and shows none of its outputs:
\* the best label, the confidence bar and the table are each as before the
\* request or as _reset_results leaves them.
C12_FailedRequestShowsNothing ==
    [][(IsRequest /\ predicted' /\ outcome' # "ok") =>
          /\ outcome' = "error"
          /\ result_label' \in {result_label, DefaultText(current_language)}
          /\ conf_bar' \in {conf_bar, 0}
          /\ top_table' \in {top_table, <<>>}]_vars

\* The class index and the probability of a row of the table
RowIndex(row) == row[1][2]
RowProb(row) == row[2]

\* A request has just displayed its result
Displayed == predicted /\ outcome = "ok"

\* C13: the rows of the top-K table are in descending order of probability,
\* rows of equal probability in ascending order of class index; a maximum
\* that occurs at two class indices has the lower index first.
C13_TopKOrderedTiesAscending ==
    Displayed =>
        \A k \in 1 .. Len(top_table) - 1 :
            \/ RowProb(top_table[k]) > RowProb(top_table[k + 1])
            \/ /\ RowProb(top_table[k]) = RowProb(top_table[k + 1])
               /\ RowIndex(top_table[k]) < RowIndex(top_table[k + 1])

\* C14: the label and the probability shown as the main result are those of
\* the first row of the top-K table of the same request, tied maxima
\* included.
C14_BestIsFirstRow ==
    Displayed =>
        /\ top_table # <<>>
        /\ top_table[1] = <<result_label, conf_bar>>

\* The steps of a request in the order the specification gives them
StageOrder == <<"normalize", "classify", "rank", "display">>

Entered(s, name) == \E k \in 1 .. Len(s) : s[k] = name
FirstPos(s, name) == SetMin({k \in 1 .. Len(s) : s[k] = name})

\* every step entered comes after the first entry of each step before it
InStageOrder(s) ==
    \A b \in 1 .. Len(StageOrder) : \A a \in 1 .. b - 1 :
        Entered(s, StageOrder[b]) =>
            /\ Entered(s, StageOrder[a])
            /\ FirstPos(s, StageOrder[a]) < FirstPos(s, StageOrder[b])

C17_LoadFailureDisablesOneFamily ==
    (op = "init" /\ \E m \in Modes : models[m] = "failed") =>
        /\ outcome = "error"
        /\ window = "open"
        /\ \A m \in Modes : models[m] # "failed" => models[m] = "loaded"

\* C18: a clear, from any state and also while a stroke is open, leaves the
\* committed strokes and the redo buffer empty and the image blank, and an
\* undo or a redo that follows it at once changes none of the three.
C18_ClearEmptiesEverything ==
    [][/\ op' = "clear_canvas" =>
              (strokes' = <<>> /\ redo_stack' = <<>> /\ image' = Blank)
       /\ (op = "clear_canvas" /\ op' \in {"undo", "redo"}) =>
              /\ outcome' = "return"
              /\ UNCHANGED <<strokes, redo_stack, image>>]_vars

\* an undo right after a clear that was issued while a stroke was open, and
\* that cleared it
C18_Witness ==
    /\ op = "undo"
    /\ outcome = "return"
    /\ open_stroke # 0
    /\ strokes = <<>>
    /\ redo_stack = <<>>
    /\ image = Blank
    /\ last_x # None

\* C19: right after a mode is selected the committed strokes and the redo
\* buffer are empty and the image is blank, whatever was drawn before.
C19_ModeStartsEmpty ==
    op = "change_mode" => (strokes = <<>> /\ redo_stack = <<>> /\ image = Blank)

\* The end point of each segment of a stroke is the start point of the next
Contiguous(stroke) ==
    \A i \in 1 .. Len(stroke) - 1 :
        /\ stroke[i][1][3] = stroke[i + 1][1][1]
        /\ stroke[i][1][4] = stroke[i + 1][1][2]

\* C20: in every reachable state, under any interleaving of pointer events
\* with undo, redo and clear, the segments of every committed stroke and of
\* every stroke of the redo buffer are contiguous.
C20_SegmentsContiguous ==
    /\ \A i \in 1 .. Len(strokes) : Contiguous(strokes[i])
    /\ \A i \in 1 .. Len(redo_stack) : Contiguous(redo_stack[i])

\* C21: every stroke closed by a pointer-up, committed or in the redo buffer,
\* has at least one segment: a pointer-down followed by a pointer-up with no
\* pointer-move in between leaves no stroke behind.
C21_ClosedStrokesNonEmpty ==
    \A i \in 1 .. Len(Log(strokes, redo_stack)) :
        i # open_stroke => Log(strokes, redo_stack)[i] # <<>>

\* C22: after any sequence of mode changes the label table belongs to the
\* selected family, and the classifier, the tensor size and the label table
\* a recognize request uses are those of the selected family.
C22_RequestUsesCurrentFamily ==
    /\ current_labels = current_mode
    /\ request # None =>
           /\ request[1].model = current_mode
           /\ request[1].model_input = model_inputs(current_mode)
           /\ request[1].labels = current_mode

\* a result displayed by a request made after a change to the family with
\* the other tensor size
C22_Witness ==
    /\ op = "recognize"
    /\ outcome = "ok"
    /\ request # None
    /\ current_mode = "kuzushiji"
    /\ RowIndex(top_table[1]) = 0
    /\ top_table[1][1][1] = "kuzushiji"

\* round(0.20 * n) for a natural number n; 0.20 * n is never halfway
\* between two integers
RoundFifth(n) == (20 * n + 50) \div 100

\* _preprocess_for_model has just run on a canvas with ink
Normalized == op = "preprocess_for_model" /\ image # Blank

\* C23: for every ink bounding box of width w and height h the padding
\* margin added on each side is round(0.20 * max(w, h)).
C23_PaddingIsRounded ==
    Normalized =>
        LET g == SquareGeometry(image)
        IN  g.m = RoundFifth(Max(g.w, g.h))

\* Background margins of the square around the ink bounding box
MarginLeft(g) == g.left
MarginRight(g) == g.side - g.left - g.w
MarginTop(g) == g.top
MarginBottom(g) == g.side - g.top - g.h

Abs(n) == IF n < 0 THEN -n ELSE n

\* C24: for a canvas with ink, the bounding box has inclusive bounds, the
\* square built before resizing has side max(padded width, padded height),
\* holds the whole crop pixel for pixel and background elsewhere, and the
\* margins on opposite sides of the ink box differ by at most one pixel.
C24_SquareCentersCrop ==
    Normalized =>
        LET g == SquareGeometry(image)
        IN  /\ g.w = Cardinality({x \in 0 .. CanvasSize + MaxBox :
                                     /\ \E p \in image : p[1] <= x
                                     /\ \E p \in image : p[1] >= x})
            /\ g.h = Cardinality({y \in 0 .. CanvasSize + MaxBox :
                                     /\ \E p \in image : p[2] <= y
                                     /\ \E p \in image : p[2] >= y})
            /\ g.side = Max(g.w + 2 * g.m, g.h + 2 * g.m)
            /\ MarginLeft(g) >= 0 /\ MarginRight(g) >= 0
            /\ MarginTop(g) >= 0 /\ MarginBottom(g) >= 0
            /\ Abs(MarginLeft(g) - MarginRight(g)) <= 1
            /\ Abs(MarginTop(g) - MarginBottom(g)) <= 1
            /\ \A sx \in 0 .. g.side - 1 : \A sy \in 0 .. g.side - 1 :
                   SquareValue(image, g, sx, sy) =
                       IF <<sx - MarginLeft(g) + g.x1, sy - MarginTop(g) + g.y1>> \in image
                       THEN 0 ELSE Background

\* a padded crop taller than wide whose left and right margins cannot be
\* equal
C24_Witness ==
    /\ Normalized
    /\ SquareGeometry(image).m >= 1
    /\ SquareGeometry(image).w < SquareGeometry(image).h
    /\ MarginLeft(SquareGeometry(image)) + 1 = MarginRight(SquareGeometry(image))

\* C25: in hiragana_gui and katakana_gui every pointer-move that follows
\* another pointer-move of the same drag draws the segment from the point
\* sampled before to the new point, also when the point sampled before has
\* an x or y coordinate of 0.
C25_EveryLaterMoveDraws ==
    [][(op = "hiragana_gui.paint" /\ op' = "hiragana_gui.paint") =>
          image' = draw_line(image, <<last_x[1], last_y[1], last_x'[1], last_y'[1]>>,
                             line_width)]_vars

\* The result display shows no result: the default prompt of the language,
\* confidence 0, no row in the table
NoResult ==
    /\ result_label = DefaultText(current_language)
    /\ conf_bar = 0
    /\ top_table = <<>>

\* C26: after an undo or redo that changes the committed strokes, a clear, a
\* mode change or a language change the display shows no result, and a
\* display that shows no result keeps doing so until a recognize request
\* runs.
C26_ResultsResetAndStayReset ==
    [][/\ (\/ (op' \in {"undo", "redo"} /\ strokes' # strokes)
           \/ op' \in {"clear_canvas", "change_mode", "change_language"}) => NoResult'
       /\ (NoResult /\ ~IsRequest) => NoResult']_vars

\* an undo has taken a stroke with ink off a canvas that keeps other ink,
\* and the display shows no result
C26_Witness ==
    /\ op = "undo"
    /\ outcome = "ok"
    /\ NoResult
    /\ image # Blank
    /\ redo_stack # <<>>
    /\ Last(redo_stack) # <<>>

====
